---- MODULE Spec2Model ----
(***************************************************************************)
(* A model of download_plots.py: the input parser parse_input, the command *)
(* line entry point (__main__) and the per-fill screenshot loop of         *)
(* download_plots with its browser-session lifetime.                       *)
(*                                                                         *)
(* Text that the program takes apart character by character (the parser's  *)
(* input, command-line arguments, timestamps, fill-type labels) is a       *)
(* sequence of one-character strings; text that the program only builds    *)
(* (file names) is a TLA+ string built with \o.                            *)
(***************************************************************************)
EXTENDS Integers, Sequences, FiniteSets, TLC

VARIABLES
    input_str, parsed,              \* parse_input: its argument and its outcome
    concat_in, concat_out,          \* parse_input applied to a, b and a + "\n" + b
    argv, fs, main,                 \* __main__: arguments, the file system, the run
    fill_numbers, pc, pos, meta, exc, launched, quit_calls, log
                                    \* download_plots

parseVars  == <<input_str, parsed>>
concatVars == <<concat_in, concat_out>>
mainVars   == <<argv, fs, main>>
dlVars     == <<fill_numbers, pc, pos, meta, exc, launched, quit_calls, log>>
vars       == <<input_str, parsed, concat_in, concat_out, argv, fs, main,
                fill_numbers, pc, pos, meta, exc, launched, quit_calls, log>>

(***************************************************************************)
(* Bounds of the model.                                                    *)
(***************************************************************************)
MaxLen  == 4     \* longest enumerated input of parse_input
MaxHalf == 2     \* longest a and b in parse_input(a + "\n" + b)
MaxArgs == 2     \* most command-line arguments
MaxFills == 2    \* longest fill list handed to download_plots

(***************************************************************************)
(* Characters.                                                             *)
(***************************************************************************)
\* str.splitlines() line boundaries (those of the modelled alphabet)
LineBreaks == {"\n", "\r", "\f"}
\* str.strip() / str.split() whitespace (that of the modelled alphabet)
WhiteSpace == {" ", "\t", "\n", "\r", "\f"}
Digits == {"0", "1", "2", "3", "4", "5", "6", "7", "8", "9"}
DigitVal(c) ==
    CASE c = "0" -> 0 [] c = "1" -> 1 [] c = "2" -> 2 [] c = "3" -> 3
      [] c = "4" -> 4 [] c = "5" -> 5 [] c = "6" -> 6 [] c = "7" -> 7
      [] c = "8" -> 8 [] c = "9" -> 9

SetMin(S) == CHOOSE x \in S : \A y \in S : x <= y
SetMax(S) == CHOOSE x \in S : \A y \in S : y <= x

\* index of the first character of s that is in S, Len(s) + 1 when there is none
FirstIndex(s, S) ==
    LET hits == {k \in 1..Len(s) : s[k] \in S}
    IN  IF hits = {} THEN Len(s) + 1 ELSE SetMin(hits)

(***************************************************************************)
(* The string methods parse_input calls.                                   *)
(***************************************************************************)
\* str.splitlines(): "\r\n" is one boundary; no empty last line
RECURSIVE splitlines(_)
splitlines(s) ==
    IF s = <<>> THEN <<>>
    ELSE LET k   == FirstIndex(s, LineBreaks)
             eol == IF k < Len(s) /\ s[k] = "\r" /\ s[k + 1] = "\n"
                    THEN k + 1 ELSE k
         IN  <<SubSeq(s, 1, k - 1)>> \o splitlines(SubSeq(s, eol + 1, Len(s)))

\* str.strip()
strip(s) ==
    LET keep == {k \in 1..Len(s) : s[k] \notin WhiteSpace}
    IN  IF keep = {} THEN <<>> ELSE SubSeq(s, SetMin(keep), SetMax(keep))

\* str.split(sep) for a one-character sep: always at least one piece
RECURSIVE split_on(_, _)
split_on(s, sep) ==
    LET k == FirstIndex(s, {sep})
    IN  IF k > Len(s) THEN <<s>>
        ELSE <<SubSeq(s, 1, k - 1)>> \o split_on(SubSeq(s, k + 1, Len(s)), sep)

\* str.split(): runs of whitespace separate, no empty token
RECURSIVE split(_)
split(s) ==
    LET solid == {k \in 1..Len(s) : s[k] \notin WhiteSpace}
    IN  IF solid = {} THEN <<>>
        ELSE LET t == SubSeq(s, SetMin(solid), Len(s))
                 e == FirstIndex(t, WhiteSpace)
             IN  <<SubSeq(t, 1, e - 1)>> \o split(SubSeq(t, e, Len(t)))

\* the value of a run of digits and underscores, most significant first
RECURSIVE DigitsValue(_, _)
DigitsValue(s, acc) ==
    IF s = <<>> THEN acc
    ELSE IF Head(s) = "_" THEN DigitsValue(Tail(s), acc)
    ELSE DigitsValue(Tail(s), 10 * acc + DigitVal(Head(s)))

\* a mutant of int: the sign is read and dropped
int_unsigned(tok) ==
    LET t    == strip(tok)
        body == IF t # <<>> /\ t[1] \in {"+", "-"} THEN Tail(t) ELSE t
    IN  IF /\ body # <<>>
           /\ \A k \in 1..Len(body) : body[k] \in Digits \cup {"_"}
           /\ body[1] # "_" /\ body[Len(body)] # "_"
           /\ \A k \in 1..(Len(body) - 1) : ~(body[k] = "_" /\ body[k + 1] = "_")
        THEN [exc |-> "none", val |-> DigitsValue(body, 0)]
        ELSE [exc |-> "ValueError", val |-> 0]

\* int(str): surrounding whitespace, an optional sign, then decimal digits
\* that single underscores may separate; anything else is a ValueError
int(tok) ==
    LET t    == strip(tok)
        sign == IF t # <<>> /\ t[1] \in {"+", "-"} THEN t[1] ELSE ""
        body == IF sign = "" THEN t ELSE Tail(t)
        wellFormed ==
            /\ body # <<>>
            /\ \A k \in 1..Len(body) : body[k] \in Digits \cup {"_"}
            /\ body[1] # "_" /\ body[Len(body)] # "_"
            /\ \A k \in 1..(Len(body) - 1) : ~(body[k] = "_" /\ body[k + 1] = "_")
    IN  IF wellFormed
        THEN [exc |-> "none",
              val |-> IF sign = "-" THEN 0 - DigitsValue(body, 0)
                                    ELSE DigitsValue(body, 0)]
        ELSE [exc |-> "ValueError", val |-> 0]

(***************************************************************************)
(* parse_input.  The loops thread acc = [fills, exc]: the list built so    *)
(* far and the exception in flight ("none" when there is none); a raised   *)
(* exception ends both loops and leaves the function.                      *)
(***************************************************************************)
\* a mutant of the try statement: no except clause
TryAppendUncaught(acc, tok) ==
    LET r == int(tok)
    IN  IF r.exc = "none" THEN [acc EXCEPT !.fills = Append(@, r.val)]
        ELSE [acc EXCEPT !.exc = r.exc]

\* try: fills.append(int(tokens[0]))  except ValueError: pass
TryAppend(acc, tok) ==
    LET r == int(tok)
    IN  IF r.exc = "none" THEN [acc EXCEPT !.fills = Append(@, r.val)]
        ELSE IF r.exc = "ValueError" THEN acc
        ELSE [acc EXCEPT !.exc = r.exc]

\* a mutant of the segment body: every token of the segment is converted
RECURSIVE AppendEach(_, _)
AppendEach(acc, tokens) ==
    IF tokens = <<>> THEN acc ELSE AppendEach(TryAppend(acc, Head(tokens)), Tail(tokens))
PartBodyAllTokens(acc, part0) == AppendEach(acc, split(strip(part0)))

\* the body of "for part in comma_parts"
PartBody(acc, part0) ==
    LET part == strip(part0)
    IN  IF part = <<>> THEN acc
        ELSE LET tokens == split(part)
             IN  IF tokens # <<>> THEN TryAppend(acc, tokens[1]) ELSE acc

RECURSIVE ForParts(_, _)
ForParts(acc, comma_parts) ==
    IF comma_parts = <<>> \/ acc.exc # "none" THEN acc
    ELSE ForParts(PartBody(acc, Head(comma_parts)), Tail(comma_parts))

\* the body of "for line in lines"
LineBody(acc, line0) ==
    LET line == strip(line0)
    IN  IF line = <<>> THEN acc
        ELSE IF line[1] = "#" THEN acc
        ELSE LET code == IF \E k \in 1..Len(line) : line[k] = "#"
                         THEN split_on(line, "#")[1] ELSE line
             IN  ForParts(acc, split_on(code, ","))

\* a mutant of the line loop: a comment line ends the loop (break for continue)
RECURSIVE ForLinesBreak(_, _)
ForLinesBreak(acc, lines) ==
    IF lines = <<>> \/ acc.exc # "none" THEN acc
    ELSE IF strip(Head(lines)) # <<>> /\ strip(Head(lines))[1] = "#" THEN acc
    ELSE ForLinesBreak(LineBody(acc, Head(lines)), Tail(lines))

RECURSIVE ForLines(_, _)
ForLines(acc, lines) ==
    IF lines = <<>> \/ acc.exc # "none" THEN acc
    ELSE ForLines(LineBody(acc, Head(lines)), Tail(lines))

parse_input(s) == ForLines([fills |-> <<>>, exc |-> "none"], splitlines(s))

(***************************************************************************)
(* parse_input on every string of at most MaxLen characters of Chars, and  *)
(* on the inputs the specification works through.                          *)
(***************************************************************************)
Chars == {"0", "1", "-", "_", "a", " ", ",", "#", "\n", "\r"}
Strings(A, n) == UNION {[1..k -> A] : k \in 0..n}

\* '12345'
Example12345 ==
    <<"1", "2", "3", "4", "5">>
\* '# comment\n11316 1032, 222 # trailing\n'
ExampleComments ==
    <<"#", " ", "c", "o", "m", "m", "e", "n", "t", "\n", "1", "1", "3",
    "1", "6", " ", "1", "0", "3", "2", ",", " ", "2", "2", "2", " ", "#",
    " ", "t", "r", "a", "i", "l", "i", "n", "g", "\n">>
\* 'abc, 99, ,100'
ExampleSegments ==
    <<"a", "b", "c", ",", " ", "9", "9", ",", " ", ",", "1", "0", "0">>
\* '   \n# only comments\n'
ExampleBlank ==
    <<" ", " ", " ", "\n", "#", " ", "o", "n", "l", "y", " ", "c", "o",
    "m", "m", "e", "n", "t", "s", "\n">>
Examples == {Example12345, ExampleComments, ExampleSegments, ExampleBlank}
ParseInputs == Strings(Chars, MaxLen) \cup Examples

Pending == [status |-> "pending", value |-> <<>>]
\* what the caller of parse_input sees: the returned list or the exception
Outcome(acc) ==
    IF acc.exc = "none" THEN [status |-> "returned", value |-> acc.fills]
    ELSE [status |-> "raised", value |-> <<>>]

ParseIdle  == input_str = <<>> /\ parsed = Pending
ConcatIdle == concat_in = <<>> /\ concat_out = <<>>

InitParse ==
    /\ input_str \in ParseInputs
    /\ parsed = Pending
    /\ ConcatIdle

ParseCall ==
    /\ parsed = Pending
    /\ parsed' = Outcome(parse_input(input_str))
    /\ UNCHANGED <<input_str, concatVars, mainVars, dlVars>>

(***************************************************************************)
(* __main__.  argv is sys.argv[1:].  The file system holds at most one     *)
(* file, fs.name, which is absent, readable (open and read succeed and     *)
(* give fs.content) or unreadable (os.path.isfile is true and open or read *)
(* raises OSError or UnicodeDecodeError).                                  *)
(***************************************************************************)
\* the words given as arguments or typed at the prompt
ArgStrings == {<<"1">>, <<"2">>, <<"1", "2">>, <<"a">>, <<"1", ",", "2">>}
FileNames == {<<"1">>, <<"a">>}
FileContents == {<<"1", "\n", "2">>, <<"#", "1">>}

\* " ".join(words)
RECURSIVE join(_)
join(words) ==
    IF words = <<>> THEN <<>>
    ELSE IF Len(words) = 1 THEN words[1]
    ELSE words[1] \o <<" ">> \o join(Tail(words))

\* what can be typed at the prompt: up to MaxArgs words with single spaces
\* between them, possibly with a space before and after
PromptLines ==
    LET typed == {join(w) : w \in Strings(ArgStrings, MaxArgs)}
    IN  typed \cup {<<" ">> \o t \o <<" ">> : t \in typed}

\* os.path.isfile(path)
isfile(path) == fs.state # "absent" /\ path = fs.name

MainStart ==
    [pc |-> "start", fill_list |-> <<>>, exit |-> -1, uncaught |-> "none",
     printed |-> <<>>, named |-> FALSE, user_input |-> <<>>]

\* sys.exit(code)
SysExit(m, code) == [m EXCEPT !.pc = "exited", !.exit = code]
\* an exception no except clause takes: traceback, the interpreter exits 1
Propagate(m, e) == [m EXCEPT !.pc = "exited", !.exit = 1, !.uncaught = e]
\* print(text)
print(m, text) == [m EXCEPT !.printed = Append(@, text)]
\* lines 245-249: hand a non-empty list to download_plots
Dispatch(m, fill_list) ==
    IF fill_list # <<>>
    THEN [m EXCEPT !.pc = "download_plots", !.fill_list = fill_list]
    ELSE SysExit(print(m, "No valid fill numbers provided."), 0)

\* lines 211-226: the run with command-line arguments
MainArgs ==
    /\ main.pc = "start"
    /\ Len(argv) > 0
    /\ LET first_arg == argv[1]
       IN  IF isfile(first_arg)
           THEN LET m == [print(main, "Reading fill numbers from file")
                            EXCEPT !.named = TRUE]
                    r == parse_input(fs.content)
                IN  \* try: open, read, parse_input  except Exception: exit 1
                    IF fs.state = "readable" /\ r.exc = "none"
                    THEN main' = Dispatch(m, r.fills)
                    ELSE main' = SysExit(print(m, "Error reading file"), 1)
           ELSE LET r == parse_input(join(argv))
                IN  IF r.exc = "none"
                    THEN main' = Dispatch(main, r.fills)
                    ELSE main' = Propagate(main, r.exc)
    /\ UNCHANGED <<argv, fs, parseVars, concatVars, dlVars>>

\* lines 227-243: the run without arguments; input("> ") gives a line,
\* or raises KeyboardInterrupt (Ctrl-C) or EOFError (standard input closed)
MainPrompt ==
    /\ main.pc = "start"
    /\ Len(argv) = 0
    /\ \E key \in {"line", "KeyboardInterrupt", "EOFError"} :
         IF key = "KeyboardInterrupt" THEN main' = SysExit(main, 0)
         ELSE IF key = "EOFError" THEN main' = Propagate(main, "EOFError")
         ELSE \E user_input \in PromptLines :
                LET m0   == [main EXCEPT !.user_input = user_input]
                    name == strip(user_input)
                IN  IF name = <<>> THEN main' = Dispatch(m0, <<>>)
                    ELSE IF isfile(name)
                    THEN LET m == [print(m0, "Reading fill numbers from file")
                                     EXCEPT !.named = TRUE]
                             r == parse_input(fs.content)
                         IN  \* only KeyboardInterrupt is taken here
                             IF fs.state # "readable"
                             THEN main' = Propagate(m, "OSError")
                             ELSE IF r.exc # "none"
                             THEN main' = Propagate(m, r.exc)
                             ELSE main' = Dispatch(m, r.fills)
                    ELSE LET r == parse_input(user_input)
                         IN  IF r.exc = "none"
                             THEN main' = Dispatch(m0, r.fills)
                             ELSE main' = Propagate(m0, r.exc)
    /\ UNCHANGED <<argv, fs, parseVars, concatVars, dlVars>>

MainIdle ==
    /\ argv = <<>>
    /\ fs = [name |-> <<>>, state |-> "absent", content |-> <<>>]
    /\ main = MainStart

FileSystems ==
    {[name |-> <<>>, state |-> "absent", content |-> <<>>]}
    \cup {[name |-> n, state |-> "unreadable", content |-> <<>>] : n \in FileNames}
    \cup {[name |-> n, state |-> "readable", content |-> c] :
            n \in FileNames, c \in FileContents}

(***************************************************************************)
(* get_fill_metadata.  The OMS API answers a query with a response: the    *)
(* call fails with an exception (import, authentication, transport, JSON), *)
(* or gives a data list of entries whose "attributes" may lack any key.    *)
(***************************************************************************)
LowerCase == <<"a", "b", "c", "d", "e", "f", "g", "h", "i", "j", "k", "l", "m",
               "n", "o", "p", "q", "r", "s", "t", "u", "v", "w", "x", "y", "z">>
UpperCase == <<"A", "B", "C", "D", "E", "F", "G", "H", "I", "J", "K", "L", "M",
               "N", "O", "P", "Q", "R", "S", "T", "U", "V", "W", "X", "Y", "Z">>
\* str.upper()
upper(s) ==
    [k \in 1..Len(s) |->
        IF \E j \in 1..26 : LowerCase[j] = s[k]
        THEN UpperCase[CHOOSE j \in 1..26 : LowerCase[j] = s[k]]
        ELSE s[k]]
\* sub in s
Contains(sub, s) ==
    \E k \in 0..(Len(s) - Len(sub)) : SubSeq(s, k + 1, k + Len(sub)) = sub
\* dict.get(key, default)
Get(d, key, default) == IF key \in DOMAIN d THEN d[key] ELSE default

None == [none |-> TRUE]

Unknown     == <<"U", "N", "K", "N", "O", "W", "N">>
TypeProtons == <<"P", "R", "O", "T", "O", "N", "S">>
TypeIons    == <<"I", "o", "n", "s">>
Start2024   == <<"2", "0", "2", "4", "-", "0", "5", "-", "0", "1", "T", "0", "6", ":", "1", "2", ":", "4", "4", "Z">>
Start2023   == <<"2", "0", "2", "3", "-", "1", "0", "-", "0", "9", "T", "2", "1", ":", "4", "0", ":", "0", "3", "Z">>

Responses ==
    { [kind |-> "exception", data |-> <<>>],
      [kind |-> "json", data |-> <<>>],
      [kind |-> "json",
       data |-> <<[fill_type_runtime |-> TypeProtons, bunches_colliding |-> 2400,
                   start_time |-> Start2024]>>],
      [kind |-> "json",
       data |-> <<[fill_type_runtime |-> TypeIons, bunches_colliding |-> 1032,
                   start_time |-> Start2023]>>],
      [kind |-> "json",
       data |-> <<[bunches_colliding |-> 2400, start_time |-> Start2024]>>],
      [kind |-> "json", data |-> <<[bunches_colliding |-> 12]>>] }

\* a mutant of get_fill_metadata: the failed call is not caught
get_fill_metadata_uncaught(resp) ==
    IF resp.kind = "exception" THEN [exc |-> "Exception", value |-> None]
    ELSE [exc |-> "none", value |-> None]

\* lines 10-51; the value is the returned dict or None, exc what leaves the call
get_fill_metadata(resp) ==
    IF resp.kind = "exception"
    THEN [exc |-> "none", value |-> None]          \* except Exception: warning
    ELSE IF Len(resp.data) > 0
    THEN LET attributes == resp.data[1]
             fill_type  == Get(attributes, "fill_type_runtime", Unknown)
             bunches    == Get(attributes, "bunches_colliding", 0)
             start_time == Get(attributes, "start_time", <<>>)
             year   == IF start_time # <<>>
                       THEN SubSeq(start_time, 1,
                                   IF Len(start_time) < 4 THEN Len(start_time) ELSE 4)
                       ELSE Unknown
             system == IF fill_type # <<>>
                          /\ (Contains(<<"I", "O", "N">>, upper(fill_type))
                              \/ Contains(<<"P", "B", "P", "B">>, upper(fill_type)))
                       THEN "PbPb" ELSE "pp"
         IN  [exc |-> "none",
              value |-> [bunches |-> bunches, system |-> system,
                         type |-> fill_type, year |-> year]]
    ELSE [exc |-> "none", value |-> None]

(***************************************************************************)
(* The screenshot file name.                                               *)
(***************************************************************************)
DigitStr == <<"0", "1", "2", "3", "4", "5", "6", "7", "8", "9">>
\* str(n) of an integer
RECURSIVE str(_)
str(n) ==
    IF n < 0 THEN "-" \o str(0 - n)
    ELSE IF n < 10 THEN DigitStr[n + 1]
    ELSE str(n \div 10) \o DigitStr[(n % 10) + 1]

\* the characters of s as one string
RECURSIVE Text(_)
Text(s) == IF s = <<>> THEN "" ELSE Head(s) \o Text(Tail(s))

\* a mutant of the file name: the metadata suffix is never added
filename_unlabelled(fill_number, m) == "fills" \o "/" \o "fill_" \o str(fill_number) \o ".png"

\* lines 157-162: os.path.join(output_dir, f"fill_{fill_number}{filename_suffix}.png")
filename(fill_number, m) ==
    LET filename_suffix ==
            IF m # None
            THEN "_" \o m.system \o "_" \o str(m.bunches) \o "b_" \o Text(m.year)
            ELSE ""
    IN  "fills" \o "/" \o "fill_" \o str(fill_number) \o filename_suffix \o ".png"

(***************************************************************************)
(* download_plots.  pc is the statement about to run; an exception raised  *)
(* inside the try statement of lines 87-170 is kept in exc until the       *)
(* finally clause has run.  log records every call on a collaborator: the  *)
(* position and fill it was made for, whether it returned (ok), the        *)
(* metadata held at the time and, for a screenshot, the path.              *)
(***************************************************************************)
FillIds == {11316, 229854}
FillLists == Strings(FillIds, MaxFills) \ {<<>>}

Event(op, ok, note, path) ==
    [op |-> op, ok |-> ok, note |-> note, path |-> path, pos |-> pos,
     fill |-> IF pos \in 1..Len(fill_numbers) THEN fill_numbers[pos] ELSE 0,
     meta |-> meta]

\* the variables download_plots does not touch
otherVars == <<parseVars, concatVars, mainVars>>

InTry == {"base_get", "login", "lookup", "get", "sleep", "script", "screenshot"}

\* an exception leaves the statement at pc: Exception is taken by the except
\* clause of line 166, KeyboardInterrupt by none; both go through finally
Throw(e, op, path) ==
    /\ exc' = e
    /\ pc' = "finally"
    /\ log' = Append(log, Event(op, FALSE, e, path))
    /\ UNCHANGED <<fill_numbers, pos, meta, launched, quit_calls>>

\* lines 55-78: output directory, options, ChromeDriverManager().install()
Setup ==
    /\ pc = "start"
    /\ \E installed \in BOOLEAN :
         pc' = IF installed THEN "launch" ELSE "returned"
    /\ UNCHANGED <<fill_numbers, pos, meta, exc, launched, quit_calls, log>>
    /\ UNCHANGED otherVars

\* lines 80-85: webdriver.Chrome(...)
Launch ==
    /\ pc = "launch"
    /\ \E started \in BOOLEAN :
         /\ launched' = started
         /\ pc' = IF started THEN "base_get" ELSE "returned"
    /\ UNCHANGED <<fill_numbers, pos, meta, exc, quit_calls, log>>
    /\ UNCHANGED otherVars

\* line 90: driver.get(base_url)
BaseGet ==
    /\ pc = "base_get"
    /\ \/ /\ pc' = "login"
          /\ log' = Append(log, Event("base_get", TRUE, "", ""))
          /\ UNCHANGED <<fill_numbers, pos, meta, exc, launched, quit_calls>>
       \/ Throw("Exception", "base_get", "")
    /\ UNCHANGED otherVars

\* the head of "for fill_number in fill_numbers" for position p
LoopHead(p) == IF p <= Len(fill_numbers) THEN "lookup" ELSE "finally"

\* lines 93-98: input("Press Enter to continue... ")
LoginPause ==
    /\ pc = "login"
    /\ \/ /\ pos' = 1
          /\ pc' = LoopHead(1)
          /\ log' = Append(log, Event("login", TRUE, "", ""))
          /\ UNCHANGED <<fill_numbers, meta, exc, launched, quit_calls>>
       \/ Throw("Exception", "login", "")          \* EOFError
       \/ Throw("KeyboardInterrupt", "login", "")
    /\ UNCHANGED otherVars

\* line 115: meta = get_fill_metadata(fill_number)
Lookup ==
    /\ pc = "lookup"
    /\ \E resp \in Responses :
         LET r == get_fill_metadata(resp)
         IN  IF r.exc = "none"
             THEN /\ meta' = r.value
                  /\ pc' = "get"
                  /\ log' = Append(log, [Event("lookup", TRUE, resp.kind, "")
                                           EXCEPT !.meta = r.value])
                  /\ UNCHANGED <<fill_numbers, pos, exc, launched, quit_calls>>
             ELSE Throw(r.exc, "lookup", "")
    /\ UNCHANGED otherVars

\* lines 122-128: driver.get(full_url)
Navigate ==
    /\ pc = "get"
    /\ \/ /\ pc' = "sleep"
          /\ log' = Append(log, Event("get", TRUE, "", ""))
          /\ UNCHANGED <<fill_numbers, pos, meta, exc, launched, quit_calls>>
       \/ Throw("Exception", "get", "")
    /\ UNCHANGED otherVars

\* lines 131-136: time.sleep(wait_time), then "if meta:"
Sleep ==
    /\ pc = "sleep"
    /\ \/ /\ pc' = IF meta # None THEN "script" ELSE "screenshot"
          /\ log' = Append(log, Event("sleep", TRUE, "", ""))
          /\ UNCHANGED <<fill_numbers, pos, meta, exc, launched, quit_calls>>
       \/ Throw("KeyboardInterrupt", "sleep", "")
    /\ UNCHANGED otherVars

\* lines 139-155: driver.execute_script(script) inside its own try
Script ==
    /\ pc = "script"
    /\ \E applied \in BOOLEAN :
         log' = Append(log, Event("script", applied,
                                  IF applied THEN "" ELSE "Exception", ""))
    /\ pc' = "screenshot"
    /\ UNCHANGED <<fill_numbers, pos, meta, exc, launched, quit_calls>>
    /\ UNCHANGED otherVars

\* a mutant of Screenshot: a failed screenshot is logged and the loop goes on
ScreenshotIsolated ==
    /\ pc = "screenshot"
    /\ \E saved \in BOOLEAN :
         log' = Append(log, Event("screenshot", saved,
                                  IF saved THEN "" ELSE "Exception",
                                  filename(fill_numbers[pos], meta)))
    /\ pos' = pos + 1
    /\ pc' = LoopHead(pos + 1)
    /\ UNCHANGED <<fill_numbers, meta, exc, launched, quit_calls>>
    /\ UNCHANGED otherVars

\* lines 157-164: driver.save_screenshot(filename), then the next fill
Screenshot ==
    /\ pc = "screenshot"
    /\ \/ /\ log' = Append(log, Event("screenshot", TRUE, "",
                                      filename(fill_numbers[pos], meta)))
          /\ pos' = pos + 1
          /\ pc' = LoopHead(pos + 1)
          /\ UNCHANGED <<fill_numbers, meta, exc, launched, quit_calls>>
       \/ Throw("Exception", "screenshot", filename(fill_numbers[pos], meta))
    /\ UNCHANGED otherVars

\* Ctrl-C while another statement of the try block runs
Interrupt ==
    /\ pc \in InTry \ {"login", "sleep"}
    /\ Throw("KeyboardInterrupt", "interrupt", "")
    /\ UNCHANGED otherVars

\* a mutant of Finally: the session is closed by the except clause only
FinallyInExcept ==
    /\ pc = "finally"
    /\ quit_calls' = IF exc = "Exception" THEN quit_calls + 1 ELSE quit_calls
    /\ pc' = IF exc = "KeyboardInterrupt" THEN "raised" ELSE "returned"
    /\ UNCHANGED <<fill_numbers, pos, meta, exc, launched, log>>
    /\ UNCHANGED otherVars

\* lines 166-170: except Exception: print; finally: driver.quit()
Finally ==
    /\ pc = "finally"
    /\ quit_calls' = quit_calls + 1
    /\ pc' = IF exc = "KeyboardInterrupt" THEN "raised" ELSE "returned"
    /\ UNCHANGED <<fill_numbers, pos, meta, exc, launched, log>>
    /\ UNCHANGED otherVars

DownloadIdle ==
    /\ fill_numbers = <<>>
    /\ pc = "idle"
    /\ pos = 0
    /\ meta = None
    /\ exc = "none"
    /\ launched = FALSE
    /\ quit_calls = 0
    /\ log = <<>>

(***************************************************************************)
(* Specifications.                                                         *)
(***************************************************************************)
\* parse_input on one input
InitParseAll == InitParse /\ MainIdle /\ DownloadIdle
NextParse == ParseCall
SpecParse == InitParseAll /\ [][NextParse]_vars

\* parse_input on a, on b and on a + "\n" + b
ConcatChars == {"1", " ", ",", "#", "\n", "\r"}
InitConcat ==
    /\ concat_in \in Strings(ConcatChars, MaxHalf) \X Strings(ConcatChars, MaxHalf)
    /\ concat_out = <<>>
    /\ ParseIdle /\ MainIdle /\ DownloadIdle
ConcatCall ==
    /\ concat_out = <<>>
    /\ LET a == concat_in[1]
           b == concat_in[2]
       IN  concat_out' = <<Outcome(parse_input(a)), Outcome(parse_input(b)),
                           Outcome(parse_input(a \o <<"\n">> \o b))>>
    /\ UNCHANGED <<concat_in, parseVars, mainVars, dlVars>>
NextConcat == ConcatCall
SpecConcat == InitConcat /\ [][NextConcat]_vars

\* __main__ from its start to its exit or its call of download_plots
InitMain ==
    /\ argv \in Strings(ArgStrings, MaxArgs)
    /\ fs \in FileSystems
    /\ main = MainStart
    /\ ParseIdle /\ ConcatIdle /\ DownloadIdle
NextMain == MainArgs \/ MainPrompt
SpecMain == InitMain /\ [][NextMain]_vars

\* download_plots on a non-empty fill list
InitDownload ==
    /\ fill_numbers \in FillLists
    /\ pc = "start"
    /\ pos = 0
    /\ meta = None
    /\ exc = "none"
    /\ launched = FALSE
    /\ quit_calls = 0
    /\ log = <<>>
    /\ ParseIdle /\ ConcatIdle /\ MainIdle
NextDownload ==
    \/ Setup \/ Launch \/ BaseGet \/ LoginPause \/ Lookup \/ Navigate
    \/ Sleep \/ Script \/ Screenshot \/ Interrupt \/ Finally
SpecDownload == InitDownload /\ [][NextDownload]_vars

(***************************************************************************)
(* The reference parser of the specification, written from its rules and   *)
(* sharing no definition with parse_input above.                           *)
(***************************************************************************)
RefBlank == {" ", "\t", "\n", "\r", "\f"}
RefBreaks == {"\n", "\r", "\f"}

RECURSIVE RefDropBlank(_)
RefDropBlank(s) ==
    IF s # <<>> /\ Head(s) \in RefBlank THEN RefDropBlank(Tail(s)) ELSE s
RefReverse(s) == [k \in 1..Len(s) |-> s[Len(s) + 1 - k]]
RefTrim(s) == RefReverse(RefDropBlank(RefReverse(RefDropBlank(s))))

\* the longest prefix of s with no character of S
RECURSIVE RefUntil(_, _)
RefUntil(s, S) ==
    IF s = <<>> \/ Head(s) \in S THEN <<>> ELSE <<Head(s)>> \o RefUntil(Tail(s), S)

RECURSIVE RefPieces(_, _)
RefPieces(s, S) ==
    LET first == RefUntil(s, S)
    IN  IF Len(first) = Len(s) THEN <<first>>
        ELSE <<first>> \o RefPieces(SubSeq(s, Len(first) + 2, Len(s)), S)

\* the physical lines: pieces between line breaks, "\r\n" one break, and no
\* line after a final break
RECURSIVE RefLines(_)
RefLines(s) ==
    IF s = <<>> THEN <<>>
    ELSE LET first == RefUntil(s, RefBreaks)
             rest  == SubSeq(s, Len(first) + 1, Len(s))
         IN  IF rest = <<>> THEN <<first>>
             ELSE IF Len(rest) >= 2 /\ rest[1] = "\r" /\ rest[2] = "\n"
             THEN <<first>> \o RefLines(SubSeq(rest, 3, Len(rest)))
             ELSE <<first>> \o RefLines(Tail(rest))

\* a base-10 integer: sign?, digit, then digits with single "_" between them
RECURSIVE RefScan(_, _, _)
RefScan(s, afterDigit, value) ==
    IF s = <<>> THEN [ok |-> afterDigit, val |-> value]
    ELSE IF \E d \in 0..9 : DigitStr[d + 1] = Head(s)
    THEN RefScan(Tail(s), TRUE,
                 10 * value + (CHOOSE d \in 0..9 : DigitStr[d + 1] = Head(s)))
    ELSE IF Head(s) = "_" /\ afterDigit THEN RefScan(Tail(s), FALSE, value)
    ELSE [ok |-> FALSE, val |-> 0]
RefInt(tok) ==
    IF tok # <<>> /\ Head(tok) = "-"
    THEN LET r == RefScan(Tail(tok), FALSE, 0) IN [ok |-> r.ok, val |-> 0 - r.val]
    ELSE IF tok # <<>> /\ Head(tok) = "+" THEN RefScan(Tail(tok), FALSE, 0)
    ELSE RefScan(tok, FALSE, 0)

\* the first token of a segment when it parses as an integer
RefSegment(seg) ==
    LET tok == RefUntil(RefTrim(seg), RefBlank)
    IN  IF tok # <<>> /\ RefInt(tok).ok THEN <<tok>> ELSE <<>>

RECURSIVE RefFlatten(_)
RefFlatten(ss) == IF ss = <<>> THEN <<>> ELSE Head(ss) \o RefFlatten(Tail(ss))

RefLine(line) ==
    LET t == RefTrim(line)
    IN  IF t = <<>> \/ Head(t) = "#" THEN <<>>
        ELSE LET segs == RefPieces(RefUntil(t, {"#"}), {","})
             IN  RefFlatten([k \in 1..Len(segs) |-> RefSegment(segs[k])])

\* the tokens the reference emits, in encounter order, and their values
RefTokens(s) ==
    LET ls == RefLines(s) IN RefFlatten([k \in 1..Len(ls) |-> RefLine(ls[k])])
RefParse(s) ==
    LET toks == RefTokens(s) IN [k \in 1..Len(toks) |-> RefInt(toks[k]).val]

(***************************************************************************)
(* Claims about parse_input.                                               *)
(***************************************************************************)
\* the first segment or line of input_str ends before position k and emits
\* nothing: it has no comment and its first token, if any, is not an integer
DroppedHead(k) ==
    LET head == SubSeq(input_str, 1, k - 1)
    IN  /\ input_str[k] \in {",", "\n"}
        /\ \A j \in 1..Len(head) : head[j] \notin {",", "#"} \cup LineBreaks
        /\ split(head) = <<>> \/ int(split(head)[1]).exc # "none"

\* C1: parse_input returns on every input, never raises, and its result holds
\* integers only; a leading segment or line whose first token is not an
\* integer is dropped and the rest of the input is parsed as if it were alone.
ParseNeverRaises ==
    parsed.status # "pending" =>
        /\ parsed.status = "returned"
        /\ \A k \in 1..Len(parsed.value) : parsed.value[k] \in Int
        /\ \A k \in 1..Len(input_str) :
              DroppedHead(k) =>
                  parsed.value =
                      parse_input(SubSeq(input_str, k + 1, Len(input_str))).fills

\* C1 witness: "a,1" has been parsed, "a" dropped and 1 returned
ParseNeverRaisesWitness ==
    /\ input_str = <<"a", ",", "1">>
    /\ parsed.status = "returned"
    /\ parsed.value = <<1>>

\* C6 as stated: every element of the result is strictly greater than zero
ParsePositive ==
    parsed.status = "returned" =>
        \A k \in 1..Len(parsed.value) : parsed.value[k] > 0

\* C6 amended: every element is the integer value of the first token it came
\* from, negative when the token has a minus sign, zero when all its digits
\* are zero, and strictly positive exactly in the remaining case.
ParseSigned ==
    parsed.status # "pending" =>
        LET toks == RefTokens(input_str)
        IN  /\ parsed.status = "returned"
            /\ Len(parsed.value) = Len(toks)
            /\ \A k \in 1..Len(toks) :
                  LET tok == toks[k]
                      v   == parsed.value[k]
                      nonzero == \E j \in 1..Len(tok) : tok[j] \in Digits \ {"0"}
                  IN  /\ v \in Int
                      /\ v < 0 <=> (tok[1] = "-" /\ nonzero)
                      /\ v = 0 <=> ~nonzero
                      /\ v > 0 <=> (tok[1] # "-" /\ nonzero)

\* C6 witness: "-1,0" has been parsed into a negative and a zero element
ParseSignedWitness ==
    /\ input_str = <<"-", "1", ",", "0">>
    /\ parsed.status = "returned"
    /\ parsed.value = <<0 - 1, 0>>

\* C8: parse_input returns what the reference parser returns: per line, per
\* comma segment, the first token when it is an integer, in encounter order
\* with duplicates kept; the specification's examples give the stated lists.
ParseMatchesReference ==
    parsed.status # "pending" =>
        /\ parsed.status = "returned"
        /\ parsed.value = RefParse(input_str)
        /\ input_str = Example12345 => parsed.value = <<12345>>
        /\ input_str = ExampleComments => parsed.value = <<11316, 222>>
        /\ input_str = ExampleSegments => parsed.value = <<99, 100>>
        /\ input_str \in {<<>>, ExampleBlank} => parsed.value = <<>>

\* C8 witness: the two-line example with a comment line, a second column and
\* a trailing comment has been parsed
ParseMatchesReferenceWitness ==
    /\ input_str = ExampleComments
    /\ parsed.status = "returned"
    /\ parsed.value = <<11316, 222>>

\* C10: parse_input(a + "\n" + b) is parse_input(a) followed by parse_input(b)
ParseConcat ==
    concat_out # <<>> =>
        /\ \A k \in 1..3 : concat_out[k].status = "returned"
        /\ concat_out[3].value = concat_out[1].value \o concat_out[2].value

\* C10 witness: a ends in "\r", which the added "\n" completes to one line
\* break, b starts with an empty segment, and both contribute
ParseConcatWitness ==
    /\ concat_in = <<<<"1", "\r">>, <<",", "1">>>>
    /\ concat_out # <<>>
    /\ concat_out[3].value = <<1, 1>>

(***************************************************************************)
(* Claims about __main__.                                                  *)
(***************************************************************************)
MainEnded == main.pc \in {"exited", "download_plots"}

\* C5: a named input file that cannot be read is reported, and the process
\* exits with status 1, with no uncaught exception and no fill processed, on
\* the argument path and on the prompt path alike.
UnreadableFileExitsCleanly ==
    (MainEnded /\ main.named /\ fs.state = "unreadable") =>
        /\ main.pc = "exited"
        /\ main.exit = 1
        /\ main.uncaught = "none"
        /\ main.fill_list = <<>>
        /\ \E k \in 1..Len(main.printed) : main.printed[k] = "Error reading file"

\* the words given as fill numbers: the arguments, or the words of the line
GivenWords == IF Len(argv) > 0 THEN argv ELSE split(main.user_input)
Numeric(w) == w # <<>> /\ \A k \in 1..Len(w) : w[k] \in Digits

\* C7: several numbers separated by spaces, as arguments or at the prompt,
\* none naming a file, all reach the list of fills to process, in order.
SpaceSeparatedNumbersAllListed ==
    (/\ MainEnded
     /\ GivenWords # <<>>
     /\ \A k \in 1..Len(GivenWords) :
           Numeric(GivenWords[k]) /\ ~isfile(GivenWords[k])) =>
        main.fill_list = [k \in 1..Len(GivenWords) |-> RefInt(GivenWords[k]).val]

(***************************************************************************)
(* Claims about download_plots.                                            *)
(***************************************************************************)
Exited == pc \in {"returned", "raised"}
LogIdx == 1..Len(log)
Unlabelled(fill) == "fills/fill_" \o str(fill) \o ".png"

\* C2: once the session is launched, driver.quit is called exactly once on
\* every way out of download_plots: all fills done, an exception of a
\* navigation, script or screenshot, an interrupt in the login pause or in
\* the per-fill wait; and never for a session that was not launched.
SessionQuitOnce ==
    /\ quit_calls <= 1
    /\ quit_calls = 1 => launched
    /\ (Exited /\ launched) => quit_calls = 1

\* C2 witness: the operator interrupted the wait of the second fill, the
\* interrupt left download_plots and the session was closed
SessionQuitOnceWitness ==
    /\ pc = "raised"
    /\ exc = "KeyboardInterrupt"
    /\ quit_calls = 1
    /\ Len(log) > 0
    /\ log[Len(log)].op = "sleep" /\ log[Len(log)].pos = 2

\* only soft errors happened: every call that raised is a metadata lookup or
\* a page-title script
OnlySoftErrors == \A k \in LogIdx : ~log[k].ok => log[k].op \in {"lookup", "script"}
Done(op, p) == \E k \in LogIdx : log[k].op = op /\ log[k].pos = p /\ log[k].ok

\* C3: metadata lookups that fail or find nothing and title scripts that
\* raise interrupt nothing: with no other error, every fill of the list is
\* navigated to and screenshot; a fill whose lookup gave nothing is handled
\* as a fill without metadata (no script, unlabelled file name).
SoftErrorsDoNotInterrupt ==
    /\ (Exited /\ launched /\ OnlySoftErrors) =>
           \A p \in 1..Len(fill_numbers) : Done("get", p) /\ Done("screenshot", p)
    /\ \A k \in LogIdx :
           (log[k].op = "lookup" /\ log[k].meta = None) =>
               \A j \in LogIdx :
                   log[j].pos = log[k].pos =>
                       /\ log[j].op # "script"
                       /\ log[j].op = "screenshot" =>
                              log[j].path = Unlabelled(log[j].fill)

\* C3 witness: the first fill's lookup raised, the second fill's script
\* raised, and both fills have their screenshot
SoftErrorsDoNotInterruptWitness ==
    /\ pc = "returned"
    /\ Len(fill_numbers) = 2
    /\ \E k \in LogIdx :
          log[k].op = "lookup" /\ log[k].pos = 1 /\ log[k].note = "exception"
    /\ \E k \in LogIdx : log[k].op = "script" /\ log[k].pos = 2 /\ ~log[k].ok
    /\ Done("screenshot", 1) /\ Done("screenshot", 2)

\* C4: the path of a screenshot is fills/fill_<id>.png exactly when the fill
\* has no metadata and fills/fill_<id>_<system>_<bunches>b_<year>.png exactly
\* when it has; equal (id, system, bunches, year) give equal paths; 11316 with
\* (pp, 2400, 2024) and 229854 without metadata give the two stated paths.
ScreenshotPath ==
    \A k \in LogIdx :
        log[k].op = "screenshot" =>
            LET e == log[k]
                m == e.meta
            IN  /\ e.fill = fill_numbers[e.pos]
                /\ m = None <=> e.path = Unlabelled(e.fill)
                /\ m # None =>
                       e.path = "fills/fill_" \o str(e.fill) \o "_" \o m.system
                                \o "_" \o str(m.bunches) \o "b_" \o Text(m.year)
                                \o ".png"
                /\ \A j \in LogIdx :
                       (/\ log[j].op = "screenshot"
                        /\ log[j].fill = e.fill
                        /\ (log[j].meta = None) = (m = None)
                        /\ m # None =>
                             /\ log[j].meta.system = m.system
                             /\ log[j].meta.bunches = m.bunches
                             /\ log[j].meta.year = m.year)
                       => log[j].path = e.path
                /\ (e.fill = 11316 /\ m # None /\ m.system = "pp"
                      /\ m.bunches = 2400 /\ m.year = <<"2", "0", "2", "4">>)
                       => e.path = "fills/fill_11316_pp_2400b_2024.png"
                /\ (e.fill = 229854 /\ m = None) => e.path = "fills/fill_229854.png"

\* C4 witness: fills [11316, 229854], metadata (pp, 2400, 2024) for the
\* first, a failed lookup for the second, both screenshots saved
ScreenshotPathWitness ==
    /\ pc = "returned"
    /\ fill_numbers = <<11316, 229854>>
    /\ \E k \in LogIdx :
          log[k].op = "lookup" /\ log[k].pos = 2 /\ log[k].note = "exception"
    /\ \E k \in LogIdx :
          /\ log[k].op = "screenshot" /\ log[k].ok /\ log[k].pos = 1
          /\ log[k].path = "fills/fill_11316_pp_2400b_2024.png"
    /\ \E k \in LogIdx :
          /\ log[k].op = "screenshot" /\ log[k].ok /\ log[k].pos = 2
          /\ log[k].path = "fills/fill_229854.png"

\* C9: fills are processed one at a time in input order; after a navigation
\* or a screenshot raised for a fill nothing more is done for any fill; the
\* fills with a saved screenshot are a prefix of the list.
HardErrorAbortsBatch ==
    /\ \A j, k \in LogIdx : j < k => log[j].pos <= log[k].pos
    /\ \A k \in LogIdx :
          (log[k].op \in {"get", "screenshot"} /\ ~log[k].ok) =>
              /\ k = Len(log)
              /\ pc \in {"finally", "returned"}
    /\ \A p \in 1..Len(fill_numbers) :
          Done("screenshot", p) => \A q \in 1..p : Done("screenshot", q)
    /\ \A p \in 1..Len(fill_numbers) :
          Cardinality({k \in LogIdx : log[k].op = "screenshot" /\ log[k].pos = p}) <= 1

\* C9 witness: the navigation of the second of two or more fills raised
\* after the first was saved, and download_plots returned; the second fill
\* has no screenshot
HardErrorAbortsBatchWitness ==
    /\ pc = "returned"
    /\ Len(fill_numbers) >= 2
    /\ Done("screenshot", 1)
    /\ log[Len(log)].op = "get" /\ ~log[Len(log)].ok /\ log[Len(log)].pos = 2
    /\ ~Done("screenshot", 2)

====
